---- MODULE Spec2Model ----
(***************************************************************************)
(* Knowledge-base matching service of the Solana RFP tool                  *)
(* (KnowledgeBaseService, src/unnamed/part_010 lines 177-346) and the      *)
(* question-processing endpoints that call it.                            *)
(*                                                                         *)
(* Texts are sequences of one-character strings.  Confidences are         *)
(* per-mille integers: floor(1000 * cosine).  TF-IDF weights are the      *)
(* scikit-learn smoothed idf, ln((1+n)/(1+df)) + 1, in tenths.            *)
(***************************************************************************)
EXTENDS Integers, Sequences, FiniteSets, TLC

\* ------------------------------------------------------------------------
\* Bounds of the model
\* ------------------------------------------------------------------------

\* number of entry ids the store ever hands out
MaxEntries == 2

\* number of rebuilds that begin while one search_answers call is running
MaxOverlap == 1

\* number of questions the extractors hand over in one batch
MaxBatch == 2

\* number of requests of one component that are awaited at a time
MaxInFlight == 2

\* number of files of a selection whose files differ
MaxChosen == 2

\* the highest page number a page change is followed to
MaxPage == 4

\* the runs of the effect of LoginPage that are followed
MaxEffectRuns == 2

\* LoginPage: const maxRetries = 50
MaxRetries == 50

\* 'Maximum 10 files allowed per upload'
MaxFiles == 10

\* ------------------------------------------------------------------------
\* Characters and texts
\* ------------------------------------------------------------------------

UpperCase == {"S", "T", "F"}

WordChars == {"a", "f", "l", "o", "p", "s", "t", "x", "7", "_"}

Whitespace == {" ", "\t", "\n"}

\* str.lower() on one character
Lower(c) ==
    CASE c = "S" -> "s"
      [] c = "T" -> "t"
      [] c = "F" -> "f"
      [] OTHER -> c

\* re.sub(r"[^\w\s\-\.]", " ", text) on one (already lower-cased) character
ReplaceOther(c) ==
    IF c \in WordChars \cup UpperCase \cup Whitespace \cup {"-", "."} THEN c ELSE " "

\* re.sub(r"\s+", " ", text): every maximal run of whitespace becomes one space
RECURSIVE CollapseSpaces(_)
CollapseSpaces(s) ==
    IF s = <<>> THEN <<>>
    ELSE IF Head(s) \in Whitespace
         THEN IF Len(s) > 1 /\ s[2] \in Whitespace
              THEN CollapseSpaces(Tail(s))
              ELSE <<" ">> \o CollapseSpaces(Tail(s))
         ELSE <<Head(s)>> \o CollapseSpaces(Tail(s))

\* str.strip(): after the collapse at most one space is left at either end
Strip(s) ==
    LET a == IF s # <<>> /\ Head(s) \in Whitespace THEN Tail(s) ELSE s
    IN  IF a # <<>> /\ a[Len(a)] \in Whitespace THEN SubSeq(a, 1, Len(a) - 1) ELSE a

\* KnowledgeBaseService._normalize_text
normalize_text(text) ==
    LET lowered == [i \in DOMAIN text |-> Lower(text[i])]
        replaced == [i \in DOMAIN lowered |-> ReplaceOther(lowered[i])]
    IN  Strip(CollapseSpaces(replaced))

\* ------------------------------------------------------------------------
\* TfidfVectorizer(ngram_range=(1,2), min_df=1)
\* ------------------------------------------------------------------------

\* token_pattern r"(?u)\b\w\w+\b": the maximal runs of word characters that
\* are at least two characters long; cur is the run being read
RECURSIVE Scan(_, _)
Scan(s, cur) ==
    IF s = <<>>
    THEN IF Len(cur) >= 2 THEN <<cur>> ELSE <<>>
    ELSE IF Lower(Head(s)) \in WordChars
         THEN Scan(Tail(s), Append(cur, Lower(Head(s))))
         ELSE (IF Len(cur) >= 2 THEN <<cur>> ELSE <<>>) \o Scan(Tail(s), <<>>)

Tokenize(doc) == Scan(doc, <<>>)

\* the analyzer: the unigrams, then the bigrams of adjacent tokens; a term is
\* the sequence of its tokens
Terms(doc) ==
    LET toks == Tokenize(doc)
    IN  [i \in 1..Len(toks) |-> <<toks[i]>>]
          \o [i \in 1..(Len(toks) - 1) |-> <<toks[i], toks[i + 1]>>]

\* raw term frequency
Count(term, terms) == Cardinality({i \in DOMAIN terms : terms[i] = term})

\* the elements of a sequence, each once, in order of first occurrence
RECURSIVE Distinct(_, _)
Distinct(s, seen) ==
    IF s = <<>> THEN <<>>
    ELSE IF Head(s) \in seen THEN Distinct(Tail(s), seen)
    ELSE <<Head(s)>> \o Distinct(Tail(s), seen \cup {Head(s)})

\* the analyzer applied to every document of a corpus
Analyzed(docs) == [i \in DOMAIN docs |-> Terms(docs[i])]

RECURSIVE Flatten(_)
Flatten(lists) ==
    IF lists = <<>> THEN <<>> ELSE Head(lists) \o Flatten(Tail(lists))

\* vocabulary_ learnt by fit from the analyzed corpus: one column per term
\* (min_df=1 keeps them all)
Vocabulary(analyzed) == Distinct(Flatten(analyzed), {})

\* document frequency of a term in the analyzed corpus
Df(term, analyzed) ==
    Cardinality({i \in DOMAIN analyzed : Count(term, analyzed[i]) > 0})

\* smooth idf, 10 * (ln(a / b) + 1) rounded, for a = 1 + n and b = 1 + df
Idf(a, b) ==
    CASE a = b -> 10
      [] a = 3 /\ b = 2 -> 14
      [] a = 4 /\ b = 2 -> 17
      [] a = 4 /\ b = 3 -> 13
      [] a = 5 /\ b = 2 -> 19
      [] a = 5 /\ b = 3 -> 15
      [] a = 5 /\ b = 4 -> 12
      [] a = 6 /\ b = 2 -> 21
      [] a = 6 /\ b = 3 -> 17
      [] a = 6 /\ b = 4 -> 14
      [] a = 6 /\ b = 5 -> 12

\* a fitted TfidfVectorizer: its vocabulary_ and idf_
Fit(docs) ==
    LET analyzed == Analyzed(docs)
        vocab == Vocabulary(analyzed)
    IN  [set |-> TRUE, fitted |-> TRUE, vocabulary |-> vocab,
         idf |-> [j \in DOMAIN vocab |-> Idf(1 + Len(docs), 1 + Df(vocab[j], analyzed))]]

\* vectorizer.transform([doc])[0]: tf * idf per column; terms outside the
\* vocabulary are dropped.  (The l2 row norm scikit-learn applies is left
\* to the cosine, which divides by the norms anyway.)
Transform(vec, doc) ==
    LET terms == Terms(doc)
    IN  [j \in DOMAIN vec.vocabulary |-> Count(vec.vocabulary[j], terms) * vec.idf[j]]

RECURSIVE DotFrom(_, _, _)
DotFrom(u, v, j) ==
    IF j > Len(u) \/ j > Len(v) THEN 0 ELSE u[j] * v[j] + DotFrom(u, v, j + 1)

Dot(u, v) == DotFrom(u, v, 1)

\* the first `digits` decimal digits of r / b for r < b, by long division, so
\* that no intermediate value leaves the 32-bit integers
RECURSIVE Frac(_, _, _)
Frac(r, b, digits) ==
    IF digits = 0 THEN 0
    ELSE LET d == (10 * r) \div b
             rest == Frac((10 * r) % b, b, digits - 1)
         IN  d * (10 ^ (digits - 1)) + rest

\* floor of the square root of x, lo * lo <= x < (hi + 1) * (hi + 1)
RECURSIVE Isqrt(_, _, _)
Isqrt(x, lo, hi) ==
    IF lo = hi THEN lo
    ELSE LET mid == (lo + hi + 1) \div 2
         IN  IF mid * mid <= x THEN Isqrt(x, mid, hi) ELSE Isqrt(x, lo, mid - 1)

\* cosine_similarity(qv, X)[0][i] as floor(1000 * cos); an all-zero vector
\* has similarity 0
Similarity(qv, row) ==
    LET dot == Dot(qv, row)
        q2 == Dot(qv, qv)
        d2 == Dot(row, row)
    IN  IF dot = 0 THEN 0
        ELSE IF dot * dot = q2 * d2 THEN 1000
        ELSE Isqrt(Frac(dot * dot, q2 * d2, 6), 0, 999)

\* ------------------------------------------------------------------------
\* Inputs
\* ------------------------------------------------------------------------

T_sol_tps == <<"s", "o", "l", " ", "t", "p", "s">>

\* normalizes to the same text as T_sol_tps
T_Sol_TPS_q == <<"S", "o", "l", " ", " ", "T", "p", "s", "?">>

T_tps == <<"t", "p", "s">>

\* normalizes to the empty text
T_punct == <<"?">>

T_fast == <<"f", "a", "s", "t">>

T_bang == <<"!">>

T_empty == <<>>

QuestionPool == {T_sol_tps, T_Sol_TPS_q, T_punct}

AnswerPool == {T_fast, T_bang}

TagsPool == {<<>>}

QueryPool == QuestionPool \cup {T_tps, T_empty}

\* min_confidence values callers pass: 0, the default 0.1 and the duplicate
\* guard's 0.8
Thresholds == {0, 100, 800}

\* the limit the front end sends with a search
Limits == {1, 10}

\* min_confidence of the duplicate check in add_entry
DuplicateThreshold == 800

\* min_confidence default of search_answers and get_best_answer
DefaultMinConfidence == 100

\* an optional argument of update_entry: None or a value
NoneArg == [some |-> FALSE]

Some(v) == [some |-> TRUE, val |-> v]

Optional(S) == {NoneArg} \cup {Some(v) : v \in S}

EntryIds == 1..MaxEntries

\* ------------------------------------------------------------------------
\* State
\* ------------------------------------------------------------------------

VARIABLES
    db,          \* the knowledge_base table: id -> row
    nextId,      \* the next id the table hands out
    kb_items,    \* self.kb_items: the rows (by id) the index was built over
    vectorizer,  \* self.vectorizer
    X,           \* self.X: the tf-idf matrix, one row per document
    corpus,      \* self.corpus
    last,        \* the last request and what it returned or raised
    writer,      \* the request that is inside _rebuild_index, and its line
    reader,      \* the request that is inside search_answers, and its line
    searches,    \* the search_answers calls of the worker threads: thread -> line
    auth,        \* the AuthProvider of the front end and the browser storage it reads
    useQuestions,    \* the useQuestions hook of a QuestionInput, and its requests
    documentUpload,  \* the state of a DocumentUpload component
    kbPreview,       \* the state of a KnowledgeBasePreview component, and its requests
    loginPage        \* the Google sign-in initialisation of a LoginPage

\* the components of the front end beside the provider
Pages == <<useQuestions, documentUpload, kbPreview, loginPage>>

vars ==
    <<db, nextId, kb_items, vectorizer, X, corpus, last, writer, reader, searches, auth,
      Pages>>

\* None, and the values the three index attributes take once assigned
IsNone == [set |-> FALSE]

Unfitted == [set |-> TRUE, fitted |-> FALSE]

\* X = vectorizer.fit_transform(corpus): one row per document, in the columns
\* of the vectorizer just fitted
Matrix(vec, docs) == [set |-> TRUE, rows |-> [i \in DOMAIN docs |-> Transform(vec, docs[i])]]

Corpus(docs) == [set |-> TRUE, docs |-> docs]

\* the four attributes as one value
Index == [kb_items |-> kb_items, vectorizer |-> vectorizer, X |-> X, corpus |-> corpus]

\* " ".join(item.tags or [])
RECURSIVE JoinTags(_)
JoinTags(tags) ==
    IF tags = <<>> THEN <<>>
    ELSE IF Len(tags) = 1 THEN Head(tags)
    ELSE Head(tags) \o <<" ">> \o JoinTags(Tail(tags))

\* the document of one row: question + " " + answer + " " + tags, normalized
Document(row) ==
    normalize_text(row.question \o <<" ">> \o row.answer \o <<" ">> \o JoinTags(row.tags))

\* the ids of set S in increasing order
RECURSIVE SortedIds(_)
SortedIds(S) ==
    IF S = {} THEN <<>>
    ELSE LET m == CHOOSE x \in S : \A y \in S : x <= y
         IN  <<m>> \o SortedIds(S \ {m})

ActiveIds(table) == {i \in DOMAIN table : table[i].is_active}

\* the rows with is_active, in id order
get_all_active_entries(table) == SortedIds(ActiveIds(table))

\* ------------------------------------------------------------------------
\* _rebuild_index, statement by statement, on an index value idx
\* ------------------------------------------------------------------------

\* the entry list extended by the active rows instead of replaced by them
ExtendItems(table, idx) ==
    [idx EXCEPT !.kb_items = idx.kb_items \o get_all_active_entries(table)]

\* self.kb_items = self.get_all_active_entries()
AssignItems(table, idx) == [idx EXCEPT !.kb_items = get_all_active_entries(table)]

\* the local corpus: one document per item
CorpusOf(table, items) == [i \in DOMAIN items |-> Document(table[items[i]])]

\* self.vectorizer = TfidfVectorizer(ngram_range=(1,2), min_df=1)
NewVectorizer(idx) == [idx EXCEPT !.vectorizer = Unfitted]

\* fit_transform raises ValueError("empty vocabulary") when no document of
\* the corpus holds a token; the vectorizer stays unfitted
FitRaises(docs) == \A i \in DOMAIN docs : Tokenize(docs[i]) = <<>>

\* fit_transform fits the vectorizer object self.vectorizer refers to ...
FitVectorizer(idx, docs) == [idx EXCEPT !.vectorizer = Fit(docs)]

\* ... and its result is assigned to self.X
AssignX(idx, docs) == [idx EXCEPT !.X = Matrix(idx.vectorizer, docs)]

\* self.corpus = corpus
AssignCorpus(idx, docs) == [idx EXCEPT !.corpus = Corpus(docs)]

\* what _rebuild_index leaves and whether it raised
Left(idx, raised) ==
    [kb_items |-> idx.kb_items, vectorizer |-> idx.vectorizer, X |-> idx.X,
     corpus |-> idx.corpus, raised |-> raised]

\* KnowledgeBaseService._rebuild_index over table, from index value old
_rebuild_index(table, old) ==
    LET listed == AssignItems(table, old)
        docs == CorpusOf(table, listed.kb_items)
        created == NewVectorizer(listed)
        fitted == FitVectorizer(created, docs)
    IN  IF listed.kb_items = <<>> THEN Left(listed, FALSE)
        ELSE IF FitRaises(docs) THEN Left(created, TRUE)
        ELSE Left(AssignCorpus(AssignX(fitted, docs), docs), FALSE)

\* ------------------------------------------------------------------------
\* Queries
\* ------------------------------------------------------------------------

\* what a call returns, or the exception it raises
Returned(matches) == [error |-> "none", matches |-> matches]

Raised(kind) == [error |-> kind, matches |-> <<>>]

\* the dict search_answers appends for row id with the given score
Match(table, id, score) ==
    [id |-> id, question |-> table[id].question, answer |-> table[id].answer,
     confidence |-> score, tags |-> table[id].tags]

\* matches.sort(key=confidence, reverse=True): stable, so equal confidences
\* keep the order in which they were appended
RECURSIVE InsertByConfidence(_, _)
InsertByConfidence(m, sorted) ==
    IF sorted = <<>> THEN <<m>>
    ELSE IF Head(sorted).confidence > m.confidence
         THEN <<Head(sorted)>> \o InsertByConfidence(m, Tail(sorted))
         ELSE <<m>> \o sorted

\* the list left in the order of the loop, the sort left out
AsAppended(matches) == matches

RECURSIVE SortByConfidence(_)
SortByConfidence(matches) ==
    IF matches = <<>> THEN <<>>
    ELSE InsertByConfidence(Head(matches), SortByConfidence(Tail(matches)))

\* the filter of a comparison turned round: the rows whose score is at most
\* min_confidence
HitsAtMost(similarities, min_confidence) ==
    SortedIds({i \in DOMAIN similarities : similarities[i] <= min_confidence})

\* the filter with a floor of its own, the 0.1 below which the documents call
\* a score noise
HitsAboveFloor(similarities, min_confidence) ==
    SortedIds({i \in DOMAIN similarities :
                  similarities[i] >= min_confidence /\ similarities[i] >= 100})

\* the rows that reach min_confidence gathered twice over, as by two passes
\* whose candidates are joined without a merge
HitsTwice(similarities, min_confidence) ==
    SortedIds({i \in DOMAIN similarities : similarities[i] >= min_confidence})
        \o SortedIds({i \in DOMAIN similarities : similarities[i] >= min_confidence})

\* the rows i of the matrix whose score reaches min_confidence, in row order
Hits(similarities, min_confidence) ==
    SortedIds({i \in DOMAIN similarities : similarities[i] >= min_confidence})

\* cosine_similarity(qv, X) needs as many columns in X as in qv
SameWidth(vec, mat) ==
    \A i \in DOMAIN mat.rows : Len(mat.rows[i]) = Len(vec.vocabulary)

\* the body of search_answers over the attribute values it reads: the entry
\* list and vectorizer of the guard (line 212), the vectorizer of transform
\* (line 217), the matrix of cosine_similarity (line 220) and the entry list
\* indexed in the loop (line 226)
SearchOver(itemsGuard, vecGuard, vec, mat, items, table, question, min_confidence) ==
    IF itemsGuard = <<>> \/ ~vecGuard.set THEN Returned(<<>>)
    ELSE IF ~vec.fitted THEN Raised("NotFittedError")
    ELSE IF ~mat.set \/ ~SameWidth(vec, mat) THEN Raised("ValueError")
    ELSE LET qn == normalize_text(question)
             qv == Transform(vec, qn)
             similarities == [i \in DOMAIN mat.rows |-> Similarity(qv, mat.rows[i])]
             hits == Hits(similarities, min_confidence)
         IN  IF \E k \in DOMAIN hits : hits[k] > Len(items)
             THEN Raised("IndexError")
             ELSE IF \E k \in DOMAIN hits : items[hits[k]] \notin DOMAIN table
             THEN Raised("ObjectDeletedError")
             ELSE Returned(SortByConfidence(
                      [k \in DOMAIN hits |->
                          Match(table, items[hits[k]], similarities[hits[k]])]))

\* search_answers without the guard of line 212
search_answers_unguarded(question, min_confidence) ==
    IF ~vectorizer.set THEN Raised("AttributeError")
    ELSE SearchOver(<<0>>, Unfitted, vectorizer, X, kb_items, db, question, min_confidence)

\* KnowledgeBaseService.search_answers
search_answers(question, min_confidence) ==
    SearchOver(kb_items, vectorizer, vectorizer, X, kb_items, db, question, min_confidence)

\* what get_best_answer returns: None, or the first match
NoAnswer == [error |-> "none", found |-> FALSE]

\* matches[-1] in place of matches[0]: the lowest-ranked match
BestOfLast(res) ==
    IF res.error # "none" THEN [error |-> res.error, found |-> FALSE]
    ELSE IF res.matches = <<>> THEN NoAnswer
    ELSE [error |-> "none", found |-> TRUE, match |-> res.matches[Len(res.matches)]]

BestOf(res) ==
    IF res.error # "none" THEN [error |-> res.error, found |-> FALSE]
    ELSE IF res.matches = <<>> THEN NoAnswer
    ELSE [error |-> "none", found |-> TRUE, match |-> Head(res.matches)]

\* KnowledgeBaseService.get_best_answer
get_best_answer(question, min_confidence) ==
    BestOf(search_answers(question, min_confidence))

\* ------------------------------------------------------------------------
\* The AuthProvider of the front end (contexts/AuthContext.tsx) and the
\* auth endpoints it calls
\* ------------------------------------------------------------------------

\* an email address: the local part, then "@" and the domain
Developer == <<"mandicnikola1989", "@gmail.com">>

\* the addresses of the test logins of the login page, and one more of the
\* allowed domain
Emails ==
    {Developer, <<"dragan.zurzin", "@solana.org">>, <<"demo", "@solana.org">>,
     <<"anyone", "@example.com">>}

\* str.endswith on an address whose last part is the "@" and the domain
EndsWith(email, suffix) == email # <<>> /\ email[Len(email)] = suffix

\* the email validation of the back end: the developer, and every address
\* ending with @solana.org
Allowed(email) == email = Developer \/ EndsWith(email, "@solana.org")

\* the user object of a response
User(email) == [email |-> email]

\* a token: whether it starts with 'mock-jwt-token-', and the address the
\* back end issued it for, if it did
MockToken == [mock |-> TRUE, issued |-> NoneArg]

AccessToken(email) == [mock |-> FALSE, issued |-> Some(email)]

ForeignToken == [mock |-> FALSE, issued |-> NoneArg]

\* GET /auth/verify-email/{email}
verify_email(email) == [is_allowed |-> Allowed(email)]

\* POST /auth/login and POST /auth/google-login: a user and an access token
\* for an allowed address, an error for any other
LoginResponse(email) ==
    IF Allowed(email)
    THEN [ok |-> TRUE, user |-> User(email), access_token |-> AccessToken(email)]
    ELSE [ok |-> FALSE]

\* GET /auth/me with a bearer token: the user the token was issued for
MeResponse(token) ==
    IF token.issued.some THEN [ok |-> TRUE, user |-> User(token.issued.val)]
    ELSE [ok |-> FALSE]

\* localStorage: the items 'auth_token' and 'user'
Storage(auth_token, user) == [auth_token |-> auth_token, user |-> user]

\* what the localStorage of a browser that opens the application may hold:
\* a token of an earlier login or any other text, and a user object
Storages ==
    {Storage(t, u) :
        t \in Optional({MockToken, ForeignToken} \cup
                       {AccessToken(e) : e \in {e \in Emails : Allowed(e)}}),
        u \in Optional({User(e) : e \in Emails})}

\* the provider as the application renders it first: useState(null),
\* useState(null), useState(true), the effect still to run
Opened(storage) ==
    [user |-> NoneArg, token |-> NoneArg, isLoading |-> TRUE, mounted |-> FALSE,
     storage |-> storage, awaiting |-> NoneArg]

\* isAuthenticated: !!user && !!token
isAuthenticated == auth.user.some /\ auth.token.some

\* the failure branch and the catch of verifyToken: both items are removed
\* and the state cleared
TokenRefused(a) ==
    [a EXCEPT !.storage = Storage(NoneArg, NoneArg), !.token = NoneArg, !.user = NoneArg,
              !.isLoading = FALSE]

\* AuthProvider.verifyToken over provider state a; fetched is whether the
\* request to the back end got a response
verifyToken(a, token, fetched) ==
    IF token.mock /\ a.storage.user.some
    THEN [a EXCEPT !.user = a.storage.user, !.token = Some(token), !.isLoading = FALSE]
    ELSE IF ~fetched THEN TokenRefused(a)
    ELSE IF MeResponse(token).ok
    THEN [a EXCEPT !.user = Some(MeResponse(token).user), !.token = Some(token),
                   !.isLoading = FALSE]
    ELSE TokenRefused(a)

\* a successful login: setUser, setToken and the token stored
LoggedIn(a, response) ==
    [a EXCEPT !.user = Some(response.user), !.token = Some(response.access_token),
              !.storage = Storage(Some(response.access_token), a.storage.user),
              !.isLoading = FALSE]

\* login and loginWithGoogle begin: setIsLoading(true), and the request to the
\* back end is awaited
Awaiting(a, handler, email) ==
    [a EXCEPT !.isLoading = TRUE,
              !.awaiting = Some([handler |-> handler, email |-> email])]

\* AuthProvider.login, from the responses on
login(a, email) ==
    IF ~verify_email(email).is_allowed THEN [a EXCEPT !.isLoading = FALSE]
    ELSE IF LoginResponse(email).ok THEN LoggedIn(a, LoginResponse(email))
    ELSE [a EXCEPT !.isLoading = FALSE]

\* AuthProvider.loginWithGoogle, from the response on
loginWithGoogle(a, email) ==
    IF LoginResponse(email).ok THEN LoggedIn(a, LoginResponse(email))
    ELSE [a EXCEPT !.isLoading = FALSE]

\* AuthProvider.logout
logout(a) ==
    [a EXCEPT !.user = NoneArg, !.token = NoneArg,
              !.storage = Storage(NoneArg, a.storage.user)]

\* ------------------------------------------------------------------------
\* The components of the front end as they render first
\* ------------------------------------------------------------------------

\* QuestionInput and its useQuestions hook: useState(false), useState(null),
\* useState('text'), useState(''); no request awaited, no result handed on
QuestionInputMounted ==
    [isProcessing |-> FALSE, error |-> NoneArg, inputType |-> "text", textInput |-> <<>>,
     dragActive |-> FALSE, inFlight |-> [text |-> 0, pdf |-> 0], results |-> NoneArg]

\* DocumentUpload: useState(false) of isUploading, useState(null) of error and
\* of the two results, useState('single'), useState([]); no upload awaited and
\* no file chosen yet
DocumentUploadMounted ==
    [isUploading |-> FALSE, error |-> NoneArg, uploadResult |-> FALSE,
     multiUploadResult |-> FALSE, uploadMode |-> "single", selectedFiles |-> <<>>,
     inFlight |-> 0, chosen |-> NoneArg]

\* the arguments of one apiService.getKnowledgeBasePreview call
PreviewRequest(page, page_size, category, search) ==
    [page |-> page, page_size |-> page_size, category |-> category, search |-> search]

\* KnowledgeBasePreview: useState(null) of data, useState(true) of loading,
\* useState(null) of error, useState(1), useState(20), useState('') twice,
\* and the effect has run: the first loadData is awaited
PreviewMounted ==
    [data |-> NoneArg, loading |-> TRUE, error |-> NoneArg, currentPage |-> 1,
     pageSize |-> 20, selectedCategory |-> "", searchTerm |-> "",
     pending |-> {PreviewRequest(1, 20, "", "")}]

\* ------------------------------------------------------------------------
\* Construction and the requests
\* ------------------------------------------------------------------------

NoRequest == [op |-> "none"]

\* no request is inside the method
Idle == [pc |-> "idle"]

\* the worker threads that serve searches beside each other
Threads == 1..2

\* a row kept for audit: present in the table at start-up, not active
AuditRow ==
    [question |-> T_sol_tps, answer |-> T_fast, tags |-> <<>>, is_active |-> FALSE,
     embedding |-> NoneArg]

\* the tables the service is constructed over: none of their rows is active
InitialTables == {<<>>, <<AuditRow>>}

\* the front end has rendered and nothing was done in it yet
PagesMounted ==
    /\ useQuestions = QuestionInputMounted
    /\ documentUpload = DocumentUploadMounted
    /\ kbPreview = PreviewMounted
    /\ loginPage = NoneArg

\* KnowledgeBaseService.__init__ over a table without active rows:
\* _rebuild_index returns before it assigns anything but kb_items
Init ==
    /\ db \in InitialTables
    /\ nextId = Len(db) + 1
    /\ kb_items = <<>>
    /\ vectorizer = IsNone
    /\ X = IsNone
    /\ corpus = IsNone
    /\ last = NoRequest
    /\ writer = Idle
    /\ reader = Idle
    /\ searches = [t \in Threads |-> Idle]
    /\ auth = Opened(Storage(NoneArg, NoneArg))
    /\ PagesMounted

\* the active rows whose question normalizes to the same text as question
SameQuestion(table, question) ==
    {i \in ActiveIds(table) : normalize_text(table[i].question) = normalize_text(question)}

\* the four attributes take the values of idx
SetIndex(idx) ==
    /\ kb_items' = idx.kb_items
    /\ vectorizer' = idx.vectorizer
    /\ X' = idx.X
    /\ corpus' = idx.corpus

\* how a request ends: "ok", "returned" with the value, or the exception
\* raised with its message, which is all the exceptions of the service carry
Outcome(kind, message) == [kind |-> kind, message |-> message]

\* what the request of a mutation that committed answers: the rebuild's
\* exception, if it raised, reaches the caller
Committed(request, raised, before) ==
    request @@
    [outcome |-> IF raised THEN Outcome("ValueError", "empty vocabulary")
                 ELSE Outcome("ok", ""),
     rebuildRaised |-> raised,
     changed |-> TRUE,
     before |-> IF raised THEN before ELSE IsNone]

\* db.commit() followed by self._rebuild_index(), with no other request in
\* between: the table becomes newDb and the four attributes what the rebuild
\* leaves, also when it raised
CommitAndRebuild(newDb, request) ==
    \E r \in {_rebuild_index(newDb, Index)} :
        /\ db' = newDb
        /\ SetIndex(r)
        /\ last' = Committed(request, r.raised, Index)
        /\ UNCHANGED <<writer, reader, searches, auth, Pages>>

\* one read of attribute attr of self
Read(attr, val) == [attr |-> attr, val |-> val]

\* every read of reads found the value that index value whole has there
Matches(whole, reads) ==
    \A i \in DOMAIN reads : reads[i].val = whole[reads[i].attr]

\* the index values of wholes that the reads agree with
Agreeing(wholes, reads) == {w \in wholes : Matches(w, reads)}

\* the index value a rebuild over table leaves
Post(table, old) ==
    LET r == _rebuild_index(table, old)
    IN  [kb_items |-> r.kb_items, vectorizer |-> r.vectorizer, X |-> r.X,
         corpus |-> r.corpus]

\* db.commit() done and _rebuild_index entered, its statements still to run;
\* a search_answers call in progress now runs beside this rebuild too
CommitAndEnter(newDb, request) ==
    \E post \in {Post(newDb, Index)} :
        /\ IF reader.pc = "idle" THEN TRUE ELSE reader.beside < MaxOverlap
        /\ db' = newDb
        /\ writer' = [pc |-> "188", request |-> request, pre |-> Index, post |-> post]
        /\ reader' = IF reader.pc = "idle" THEN reader
                     ELSE IF reader.pc = "return"
                     THEN [reader EXCEPT !.beside = @ + 1]
                     ELSE [reader EXCEPT !.wholes = @ \cup Agreeing({post}, reader.reads),
                                         !.beside = @ + 1]
        /\ UNCHANGED <<kb_items, vectorizer, X, corpus, last, searches, auth, Pages>>

\* db.commit() and the call of _rebuild_index that follows it, in a service
\* that serves one request at a time or one that serves them on threads
CommitThen(threads, newDb, request) ==
    IF threads THEN CommitAndEnter(newDb, request) ELSE CommitAndRebuild(newDb, request)

\* a request that raised before it changed anything
Rejected(request, outcome) ==
    /\ last' = request @@
               [outcome |-> outcome, rebuildRaised |-> FALSE, changed |-> FALSE,
                before |-> IsNone]
    /\ UNCHANGED <<db, nextId, kb_items, vectorizer, X, corpus, writer, reader, searches, auth, Pages>>

\* KnowledgeBaseService.add_entry
add_entry(question, answer, tags, threads) ==
    \E existing \in {search_answers(question, DuplicateThreshold)} :
        LET request == [op |-> "add", sameQuestion |-> SameQuestion(db, question)]
            row == [question |-> question, answer |-> answer, tags |-> tags,
                    is_active |-> TRUE, embedding |-> NoneArg]
        IN  IF existing.error # "none"
            THEN Rejected(request, Outcome(existing.error, ""))
            ELSE IF existing.matches # <<>>
            THEN Rejected(request,
                          Outcome("ValueError",
                                  "Similar question already exists in knowledge base"))
            ELSE /\ nextId <= MaxEntries
                 /\ nextId' = nextId + 1
                 /\ CommitThen(threads, db @@ (nextId :> row),
                               request @@ [entry_id |-> nextId])

\* KnowledgeBaseService.update_entry
update_entry(entry_id, question, answer, tags, threads) ==
    LET request == [op |-> "update", sameQuestion |-> {}]
    IN  IF entry_id \notin DOMAIN db
        THEN Rejected(request, Outcome("ValueError", "Knowledge base entry not found"))
        ELSE LET old == db[entry_id]
                 row == [question |-> IF question.some THEN question.val ELSE old.question,
                         answer |-> IF answer.some THEN answer.val ELSE old.answer,
                         tags |-> IF tags.some THEN tags.val ELSE old.tags,
                         is_active |-> old.is_active, embedding |-> old.embedding]
             IN  /\ UNCHANGED nextId
                 /\ CommitThen(threads, [db EXCEPT ![entry_id] = row],
                               request @@ [entry_id |-> entry_id,
                                           unchanged |-> row = old])

\* KnowledgeBaseService.delete_entry
delete_entry(entry_id, threads) ==
    LET request == [op |-> "delete", sameQuestion |-> {}, entry_id |-> entry_id,
                    wasActive |-> entry_id \in ActiveIds(db)]
    IN  IF entry_id \notin DOMAIN db
        THEN Rejected(request, Outcome("returned", "False"))
        ELSE /\ UNCHANGED nextId
             /\ CommitThen(threads, [i \in DOMAIN db \ {entry_id} |-> db[i]], request)

\* GET /search: search_knowledge_base(query, min_confidence); the limit the
\* front end sends is no parameter of the endpoint
search_knowledge_base(query, min_confidence, limit) ==
    /\ last' = [op |-> "search", question |-> query, min_confidence |-> min_confidence,
                limit |-> limit, result |-> search_answers(query, min_confidence)]
    /\ UNCHANGED <<db, nextId, kb_items, vectorizer, X, corpus, writer, reader, searches, auth, Pages>>

\* a caller of get_best_answer
best_answer(question, min_confidence) ==
    /\ last' = [op |-> "best", question |-> question, min_confidence |-> min_confidence,
                result |-> get_best_answer(question, min_confidence)]
    /\ UNCHANGED <<db, nextId, kb_items, vectorizer, X, corpus, writer, reader, searches, auth, Pages>>

AddEntry ==
    \E q \in QuestionPool, a \in AnswerPool, t \in TagsPool :
        add_entry(q, a, t, FALSE)

UpdateEntry ==
    \E id \in EntryIds, q \in Optional(QuestionPool), a \in Optional(AnswerPool),
       t \in Optional(TagsPool) : update_entry(id, q, a, t, FALSE)

DeleteEntry == \E id \in EntryIds : delete_entry(id, FALSE)

Search == \E q \in QueryPool, mc \in Thresholds, n \in Limits : search_knowledge_base(q, mc, n)

BestAnswer == \E q \in QueryPool, mc \in Thresholds : best_answer(q, mc)

\* the requests the service serves, one at a time
Next ==
    \/ AddEntry
    \/ UpdateEntry
    \/ DeleteEntry
    \/ Search
    \/ BestAnswer

Spec == Init /\ [][Next]_vars

\* ------------------------------------------------------------------------
\* Requests served on threads: _rebuild_index and search_answers take no
\* lock, so one request's statements run between another's
\* ------------------------------------------------------------------------

\* the request returns from _rebuild_index, or leaves it by the exception
Leave(raised) ==
    /\ writer' = Idle
    /\ last' = Committed(writer.request, raised, writer.pre)
    /\ UNCHANGED reader

\* the request goes on to the statement at line pc
Goto(pc) ==
    /\ writer' = [writer EXCEPT !.pc = pc]
    /\ UNCHANGED <<last, reader>>

\* the questions added while searches run
ThreadQuestionPool == {T_sol_tps, T_punct}

ThreadAdd ==
    /\ writer.pc = "idle"
    /\ \E q \in ThreadQuestionPool, a \in AnswerPool, t \in TagsPool :
           add_entry(q, a, t, TRUE)

ThreadUpdate ==
    /\ writer.pc = "idle"
    /\ \E id \in EntryIds, a \in Optional(AnswerPool) :
           update_entry(id, NoneArg, a, NoneArg, TRUE)

ThreadDelete ==
    /\ writer.pc = "idle"
    /\ \E id \in EntryIds : delete_entry(id, TRUE)

\* line 188, and the return of line 190
Rebuild188 ==
    /\ writer.pc = "188"
    /\ \E idx \in {AssignItems(db, Index)} :
           /\ SetIndex(idx)
           /\ IF idx.kb_items = <<>> THEN Leave(FALSE) ELSE Goto("199")
    /\ UNCHANGED <<db, nextId, searches, auth, Pages>>

\* line 199
Rebuild199 ==
    /\ writer.pc = "199"
    /\ SetIndex(NewVectorizer(Index))
    /\ Goto("200")
    /\ UNCHANGED <<db, nextId, searches, auth, Pages>>

\* line 200, the call: fit_transform fits the vectorizer or raises
Rebuild200Fit ==
    /\ writer.pc = "200"
    /\ \E docs \in {CorpusOf(db, kb_items)} :
           IF FitRaises(docs)
           THEN SetIndex(Index) /\ Leave(TRUE)
           ELSE SetIndex(FitVectorizer(Index, docs)) /\ Goto("200=")
    /\ UNCHANGED <<db, nextId, searches, auth, Pages>>

\* line 200, the assignment of the result to self.X
Rebuild200Assign ==
    /\ writer.pc = "200="
    /\ SetIndex(AssignX(Index, CorpusOf(db, kb_items)))
    /\ Goto("201")
    /\ UNCHANGED <<db, nextId, searches, auth, Pages>>

\* line 201, and the return
Rebuild201 ==
    /\ writer.pc = "201"
    /\ SetIndex(AssignCorpus(Index, CorpusOf(db, kb_items)))
    /\ Leave(FALSE)
    /\ UNCHANGED <<db, nextId, searches, auth, Pages>>

\* the questions searched for while a rebuild runs
ThreadQueries == {T_sol_tps}

\* search_answers has its answer: what it returns or raises, the reads it
\* made and, of the index values rebuilds left or leave while it ran, those
\* its reads agree with
Finish(question, min_confidence, reads, wholes, result) ==
    /\ reader' = [pc |-> "return", question |-> question,
                  min_confidence |-> min_confidence, reads |-> reads,
                  wholes |-> Agreeing(wholes, reads), result |-> result,
                  beside |-> IF reader.pc = "idle" THEN 0 ELSE reader.beside]
    /\ UNCHANGED last

\* line 212: the guard reads self.kb_items and, if that is not empty,
\* self.vectorizer
Search212 ==
    /\ reader.pc = "idle"
    /\ \E q \in ThreadQueries, mc \in {DefaultMinConfidence} :
        \E wholes \in {IF writer.pc = "idle" THEN {Index}
                        ELSE {writer.pre, writer.post}} :
           IF kb_items = <<>>
           THEN Finish(q, mc, <<Read("kb_items", kb_items)>>, wholes, Returned(<<>>))
           ELSE \E reads \in {<<Read("kb_items", kb_items),
                                Read("vectorizer", vectorizer)>>} :
                  IF ~vectorizer.set
                  THEN Finish(q, mc, reads, wholes, Returned(<<>>))
                  ELSE /\ reader' = [pc |-> "217", question |-> q, min_confidence |-> mc,
                                     reads |-> reads,
                                     wholes |-> Agreeing(wholes, reads),
                                     beside |-> 0]
                       /\ UNCHANGED last
    /\ UNCHANGED <<db, nextId, kb_items, vectorizer, X, corpus, writer, searches, auth, Pages>>

\* what the call in progress answers from the reads it made, the attributes
\* it has not read yet taken as they are now
Answer(reads) ==
    SearchOver(reads[1].val, reads[2].val,
               IF Len(reads) >= 3 THEN reads[3].val ELSE vectorizer,
               IF Len(reads) >= 4 THEN reads[4].val ELSE X,
               kb_items, db, reader.question, reader.min_confidence)

\* line 217: self.vectorizer.transform
Search217 ==
    /\ reader.pc = "217"
    /\ \E reads \in {Append(reader.reads, Read("vectorizer", vectorizer))} :
           IF ~vectorizer.fitted
           THEN Finish(reader.question, reader.min_confidence, reads, reader.wholes,
                       Answer(reads))
           ELSE /\ reader' = [reader EXCEPT !.pc = "220", !.reads = reads,
                                            !.wholes = Agreeing(@, reads)]
                /\ UNCHANGED last
    /\ UNCHANGED <<db, nextId, kb_items, vectorizer, X, corpus, writer, searches, auth, Pages>>

\* line 220: cosine_similarity(qv, self.X)
Search220 ==
    /\ reader.pc = "220"
    /\ \E reads \in {Append(reader.reads, Read("X", X))} :
           IF ~X.set \/ ~SameWidth(reads[3].val, X)
           THEN Finish(reader.question, reader.min_confidence, reads, reader.wholes,
                       Answer(reads))
           ELSE /\ reader' = [reader EXCEPT !.pc = "226", !.reads = reads,
                                            !.wholes = Agreeing(@, reads)]
                /\ UNCHANGED last
    /\ UNCHANGED <<db, nextId, kb_items, vectorizer, X, corpus, writer, searches, auth, Pages>>

\* lines 224-238: the loop indexes self.kb_items, then the sort and the return
Search226 ==
    /\ reader.pc = "226"
    /\ \E reads \in {Append(reader.reads, Read("kb_items", kb_items))} :
           Finish(reader.question, reader.min_confidence, reads, reader.wholes,
                  Answer(reads))
    /\ UNCHANGED <<db, nextId, kb_items, vectorizer, X, corpus, writer, searches, auth, Pages>>

\* the caller takes the answer
SearchReturn ==
    /\ reader.pc = "return"
    /\ reader' = Idle
    /\ UNCHANGED <<last, db, nextId, kb_items, vectorizer, X, corpus, writer, searches, auth, Pages>>

NextThreads ==
    \/ ThreadAdd
    \/ ThreadUpdate
    \/ ThreadDelete
    \/ Rebuild188
    \/ Rebuild199
    \/ Rebuild200Fit
    \/ Rebuild200Assign
    \/ Rebuild201
    \/ Search212
    \/ Search217
    \/ Search220
    \/ Search226
    \/ SearchReturn

SpecThreads == Init /\ [][NextThreads]_vars

\* ------------------------------------------------------------------------
\* Searches served beside each other: the statements of the search_answers
\* calls of several threads interleave; a mutation is served while no search
\* is in progress
\* ------------------------------------------------------------------------

\* the callers of search_answers beside the duplicate check: the search
\* endpoint and get_best_answer
Callers == {"search_knowledge_base", "get_best_answer"}

\* the questions searched for beside each other
ConcurrentQueries == {T_sol_tps, T_empty}

\* the min_confidence of the calls: the default, and the 0.8 of the
\* duplicate check
CallThresholds == {DefaultMinConfidence, DuplicateThreshold}

\* no thread is inside search_answers
NoSearch == \A t \in Threads : searches[t].pc = "idle"

ServedAdd ==
    /\ NoSearch
    /\ \E q \in ThreadQuestionPool, a \in AnswerPool, t \in TagsPool :
           add_entry(q, a, t, FALSE)

ServedUpdate ==
    /\ NoSearch
    /\ \E id \in EntryIds, a \in Optional(AnswerPool) :
           update_entry(id, NoneArg, a, NoneArg, FALSE)

ServedDelete ==
    /\ NoSearch
    /\ \E id \in EntryIds : delete_entry(id, FALSE)

\* what the body of search_answers gives from the reads a call has made, the
\* attributes it has not read yet taken as they are now
FromReads(call, reads) ==
    SearchOver(reads[1].val, reads[2].val,
               IF Len(reads) >= 3 THEN reads[3].val ELSE vectorizer,
               IF Len(reads) >= 4 THEN reads[4].val ELSE X,
               IF Len(reads) >= 5 THEN reads[5].val ELSE kb_items,
               db, call.question, call.min_confidence)

\* the call of thread t goes on to the statement at line pc
Proceed(t, call, pc, reads) ==
    searches' = [searches EXCEPT ![t] =
                    [pc |-> pc, caller |-> call.caller, question |-> call.question,
                     min_confidence |-> call.min_confidence, reads |-> reads]]

\* the call of thread t has its answer: what search_answers returns or
\* raises, and what get_best_answer makes of it
Conclude(t, call, reads, result) ==
    searches' = [searches EXCEPT ![t] =
                    [pc |-> "return", caller |-> call.caller, question |-> call.question,
                     min_confidence |-> call.min_confidence, reads |-> reads,
                     result |-> IF call.caller = "get_best_answer"
                                THEN BestOf(result) ELSE result]]

\* line 212 on thread t
Call212(t) ==
    /\ searches[t].pc = "idle"
    /\ \E c \in Callers, q \in ConcurrentQueries, mc \in CallThresholds :
        \E call \in {[caller |-> c, question |-> q, min_confidence |-> mc]} :
           IF kb_items = <<>>
           THEN Conclude(t, call, <<Read("kb_items", kb_items)>>, Returned(<<>>))
           ELSE \E reads \in {<<Read("kb_items", kb_items),
                                Read("vectorizer", vectorizer)>>} :
                  IF ~vectorizer.set
                  THEN Conclude(t, call, reads, Returned(<<>>))
                  ELSE Proceed(t, call, "217", reads)
    /\ UNCHANGED <<db, nextId, kb_items, vectorizer, X, corpus, last, writer, reader, auth, Pages>>

\* line 217 on thread t
Call217(t) ==
    /\ searches[t].pc = "217"
    /\ \E reads \in {Append(searches[t].reads, Read("vectorizer", vectorizer))} :
           IF ~vectorizer.fitted
           THEN Conclude(t, searches[t], reads, FromReads(searches[t], reads))
           ELSE Proceed(t, searches[t], "220", reads)
    /\ UNCHANGED <<db, nextId, kb_items, vectorizer, X, corpus, last, writer, reader, auth, Pages>>

\* line 220 on thread t
Call220(t) ==
    /\ searches[t].pc = "220"
    /\ \E reads \in {Append(searches[t].reads, Read("X", X))} :
           IF ~X.set \/ ~SameWidth(reads[3].val, X)
           THEN Conclude(t, searches[t], reads, FromReads(searches[t], reads))
           ELSE Proceed(t, searches[t], "226", reads)
    /\ UNCHANGED <<db, nextId, kb_items, vectorizer, X, corpus, last, writer, reader, auth, Pages>>

\* lines 224-234 as a filter of the entry list in place: self.kb_items is
\* left holding the matched entries
Call226InPlace(t) ==
    /\ searches[t].pc = "226"
    /\ \E reads \in {Append(searches[t].reads, Read("kb_items", kb_items))} :
        \E result \in {FromReads(searches[t], reads)} :
           /\ Conclude(t, searches[t], reads, result)
           /\ kb_items' = [k \in DOMAIN result.matches |-> result.matches[k].id]
    /\ UNCHANGED <<db, nextId, vectorizer, X, corpus, last, writer, reader, auth, Pages>>

\* lines 224-238 on thread t: the loop builds the local list matches from
\* self.kb_items, then the sort and the return
Call226(t) ==
    /\ searches[t].pc = "226"
    /\ \E reads \in {Append(searches[t].reads, Read("kb_items", kb_items))} :
           Conclude(t, searches[t], reads, FromReads(searches[t], reads))
    /\ UNCHANGED <<db, nextId, kb_items, vectorizer, X, corpus, last, writer, reader, auth, Pages>>

\* the caller on thread t takes the answer
CallReturn(t) ==
    /\ searches[t].pc = "return"
    /\ searches' = [searches EXCEPT ![t] = Idle]
    /\ UNCHANGED <<db, nextId, kb_items, vectorizer, X, corpus, last, writer, reader, auth, Pages>>

NextQueries ==
    \/ ServedAdd
    \/ ServedUpdate
    \/ ServedDelete
    \/ \E t \in Threads : Call212(t)
    \/ \E t \in Threads : Call217(t)
    \/ \E t \in Threads : Call220(t)
    \/ \E t \in Threads : Call226(t)
    \/ \E t \in Threads : CallReturn(t)

SpecQueries == Init /\ [][NextQueries]_vars

\* ------------------------------------------------------------------------
\* The admin page (TestAdminPage.tsx): the entry forms in front of the
\* service
\* ------------------------------------------------------------------------

T_blank == <<" ">>

\* what an administrator leaves in a text field of a form
FormTexts == {T_sol_tps, T_fast, T_blank, T_empty}

\* String.prototype.trim(): the text without the whitespace at its ends
RECURSIVE TrimStart(_)
TrimStart(s) ==
    IF s # <<>> /\ Head(s) \in Whitespace THEN TrimStart(Tail(s)) ELSE s

RECURSIVE TrimEnd(_)
TrimEnd(s) ==
    IF s # <<>> /\ s[Len(s)] \in Whitespace THEN TrimEnd(SubSeq(s, 1, Len(s) - 1)) ELSE s

trim(s) == TrimEnd(TrimStart(s))

\* the page returned before it sent a request
NotSent(handler) ==
    /\ last' = [op |-> handler, sent |-> FALSE]
    /\ UNCHANGED <<db, nextId, kb_items, vectorizer, X, corpus, writer, reader, searches, auth, Pages>>

\* AdminPage.addEntry over the form newEntry: POST /entries unless the
\* question or the answer is blank
addEntry(newEntry) ==
    IF trim(newEntry.question) = <<>> \/ trim(newEntry.answer) = <<>>
    THEN NotSent("addEntry")
    ELSE add_entry(newEntry.question, newEntry.answer, newEntry.tags, FALSE)

\* AdminPage.updateEntry over the form editingEntry, which startEditing
\* filled with the fields of the entry: PUT /entries/{id} with every field
updateEntry(id, editingEntry) ==
    update_entry(id, Some(editingEntry.question), Some(editingEntry.answer),
                 Some(editingEntry.tags), FALSE)

\* AdminPage.deleteEntry, confirmed: DELETE /entries/{id}
deleteEntry(id) == delete_entry(id, FALSE)

\* the entries the page lists, which are the ones it edits and deletes
Listed == ActiveIds(db)

AdminAdd ==
    \E q \in FormTexts, a \in FormTexts, t \in TagsPool :
        addEntry([question |-> q, answer |-> a, tags |-> t])

AdminUpdate ==
    \E id \in Listed, q \in FormTexts, a \in FormTexts :
        updateEntry(id, [question |-> q, answer |-> a, tags |-> db[id].tags])

AdminDelete == \E id \in Listed : deleteEntry(id)

NextAdmin ==
    \/ AdminAdd
    \/ AdminUpdate
    \/ AdminDelete

SpecAdmin == Init /\ [][NextAdmin]_vars

\* ------------------------------------------------------------------------
\* The question-processing endpoints (app/api/questions.py)
\* ------------------------------------------------------------------------

\* the answer text of a question without a match
NoAnswerText == <<"No answer found in knowledge base">>

\* the questions the extractors hand over
BatchQuestions == {T_sol_tps, T_tps, T_empty}

\* the lists of at most MaxBatch extracted questions
Batches == UNION {[1..n -> BatchQuestions] : n \in 0..MaxBatch}

\* the dict the loop appends for one question and its best_match
ResultOf(question, best_match) ==
    [question |-> question,
     answer |-> IF best_match.found THEN best_match.match.answer ELSE NoAnswerText,
     confidence |-> IF best_match.found THEN best_match.match.confidence ELSE 0,
     source |-> IF best_match.found THEN Some(best_match.match.id) ELSE NoneArg]

\* the loop of lines 500-507 and 531-538: one get_best_answer per question,
\* at min_confidence 0.1
Results(questions) ==
    [i \in DOMAIN questions |->
        ResultOf(questions[i], get_best_answer(questions[i], DefaultMinConfidence))]

\* the first exception a get_best_answer of the loop raises, "none" if none
LoopError(questions) ==
    LET raising == {i \in DOMAIN questions :
                       get_best_answer(questions[i], DefaultMinConfidence).error # "none"}
    IN  IF raising = {} THEN "none"
        ELSE get_best_answer(questions[CHOOSE i \in raising : \A j \in raising : i <= j],
                             DefaultMinConfidence).error

\* a count of every result, found or not
answers_found_all(results) == Len(results)

\* len([r for r in results if r["confidence"] > 0])
answers_found(results) ==
    Cardinality({i \in DOMAIN results : results[i].confidence > 0})

\* what the endpoint answers for the extracted questions; the count of the
\* questions is questions_processed for text and questions_extracted for pdf
Processed(questions) ==
    IF LoopError(questions) # "none"
    THEN [error |-> LoopError(questions)]
    ELSE [error |-> "none",
          questions_processed |-> Len(questions),
          answers_found |-> answers_found(Results(questions)),
          results |-> Results(questions)]

\* POST /process-text
process_text_questions(questions) ==
    /\ last' = [op |-> "process-text", questions |-> questions,
                response |-> Processed(questions)]
    /\ UNCHANGED <<db, nextId, kb_items, vectorizer, X, corpus, writer, reader, searches, auth, Pages>>

\* POST /process-pdf
process_pdf_questions(questions) ==
    /\ last' = [op |-> "process-pdf", questions |-> questions,
                response |-> Processed(questions)]
    /\ UNCHANGED <<db, nextId, kb_items, vectorizer, X, corpus, writer, reader, searches, auth, Pages>>

ProcessText == \E questions \in Batches : process_text_questions(questions)

ProcessPdf == \E questions \in Batches : process_pdf_questions(questions)

NextWorkflow ==
    \/ AddEntry
    \/ UpdateEntry
    \/ DeleteEntry
    \/ ProcessText
    \/ ProcessPdf

SpecWorkflow == Init /\ [][NextWorkflow]_vars

\* ------------------------------------------------------------------------
\* The front end in a browser: the application is opened, the effect of the
\* provider runs, and the visitor logs in and out
\* ------------------------------------------------------------------------

\* the service is not involved
ServiceUnchanged ==
    UNCHANGED <<db, nextId, kb_items, vectorizer, X, corpus, last, writer, reader, searches,
                Pages>>

\* a browser opens the application
OpenApp ==
    /\ \E storage \in Storages : auth' = Opened(storage)
    /\ ServiceUnchanged

\* the effect of the provider: the stored token, if any, is verified
Mount ==
    /\ ~auth.mounted
    /\ \E a \in {[auth EXCEPT !.mounted = TRUE]} :
           IF a.storage.auth_token.some
           THEN \E fetched \in BOOLEAN :
                    auth' = verifyToken([a EXCEPT !.token = a.storage.auth_token],
                                        a.storage.auth_token.val, fetched)
           ELSE auth' = [a EXCEPT !.isLoading = FALSE]
    /\ ServiceUnchanged

EmailLogin ==
    /\ auth.mounted
    /\ ~auth.awaiting.some
    /\ \E email \in Emails : auth' = Awaiting(auth, "login", email)
    /\ ServiceUnchanged

GoogleLogin ==
    /\ auth.mounted
    /\ ~auth.awaiting.some
    /\ \E email \in Emails : auth' = Awaiting(auth, "loginWithGoogle", email)
    /\ ServiceUnchanged

\* the back end has answered the login that is awaited
Responded ==
    /\ auth.awaiting.some
    /\ \E a \in {[auth EXCEPT !.awaiting = NoneArg]} :
           auth' = IF auth.awaiting.val.handler = "login"
                   THEN login(a, auth.awaiting.val.email)
                   ELSE loginWithGoogle(a, auth.awaiting.val.email)
    /\ ServiceUnchanged

Logout ==
    /\ auth.mounted
    /\ auth' = logout(auth)
    /\ ServiceUnchanged

NextAuth ==
    \/ OpenApp
    \/ Mount
    \/ EmailLogin
    \/ GoogleLogin
    \/ Responded
    \/ Logout

SpecAuth == Init /\ [][NextAuth]_vars

\* ------------------------------------------------------------------------
\* The service constructed anew over the table as it is: a process of the
\* service starts again
\* ------------------------------------------------------------------------

\* the attributes as lines 180-183 of __init__ assign them
Constructed == [kb_items |-> <<>>, vectorizer |-> IsNone, X |-> IsNone, corpus |-> IsNone]

\* KnowledgeBaseService.__init__: the assignments, then self._rebuild_index(),
\* whose exception is the constructor's
__init__ ==
    \E r \in {_rebuild_index(db, Constructed)} :
        /\ SetIndex(r)
        /\ last' = [op |-> "init", raised |-> r.raised]
        /\ UNCHANGED <<db, nextId, writer, reader, searches, auth, Pages>>

\* there is a service object: the last construction did not raise
Serving == IF last.op = "init" THEN ~last.raised ELSE TRUE

ServingAdd == Serving /\ AddEntry

ServingUpdate == Serving /\ UpdateEntry

ServingDelete == Serving /\ DeleteEntry

ServingSearch == Serving /\ Search

NextRestart ==
    \/ __init__
    \/ ServingAdd
    \/ ServingUpdate
    \/ ServingDelete
    \/ ServingSearch

SpecRestart == Init /\ [][NextRestart]_vars

\* ------------------------------------------------------------------------
\* The service over a table loaded with entries that carry embeddings
\* ------------------------------------------------------------------------

\* the vector of the embedding provider for an entry, told by the text it
\* was generated from
Embedded(question, answer) == [question |-> question, answer |-> answer]

\* a row of the loaded knowledge base: active, its embedding column filled
\* from its text
SeedRow ==
    [question |-> T_sol_tps, answer |-> T_fast, tags |-> <<>>, is_active |-> TRUE,
     embedding |-> Some(Embedded(T_sol_tps, T_fast))]

\* KnowledgeBaseService.__init__ over the loaded table
InitSeeded ==
    /\ db = <<SeedRow>>
    /\ nextId = 2
    /\ \E r \in {_rebuild_index(db, Constructed)} :
           /\ kb_items = r.kb_items
           /\ vectorizer = r.vectorizer
           /\ X = r.X
           /\ corpus = r.corpus
    /\ last = NoRequest
    /\ writer = Idle
    /\ reader = Idle
    /\ searches = [t \in Threads |-> Idle]
    /\ auth = Opened(Storage(NoneArg, NoneArg))
    /\ PagesMounted

NextSeeded ==
    \/ AddEntry
    \/ UpdateEntry
    \/ DeleteEntry
    \/ BestAnswer

SpecSeeded == InitSeeded /\ [][NextSeeded]_vars

\* ------------------------------------------------------------------------
\* QuestionInput (components/QuestionInput.tsx) over its useQuestions hook
\* (hooks/useQuestions.ts)
\* ------------------------------------------------------------------------

\* what the textarea may hold
TextInputs == {T_empty, T_blank, T_sol_tps}

\* the kinds of request of the hook: processTextQuestions, processPDFQuestions
RequestKinds == {"text", "pdf"}

\* the type of a dropped file
FileTypes == {"application/pdf", "image/png"}

\* the requests of the hook that are awaited
Awaited(q) == q.inFlight.text + q.inFlight.pdf

ServiceAndOthersUnchanged ==
    UNCHANGED <<db, nextId, kb_items, vectorizer, X, corpus, last, writer, reader, searches,
                auth>>

\* useQuestions.processTextQuestions and processPDFQuestions up to the await:
\* setIsProcessing(true), setError(null), and the request is sent
Process(q, kind) ==
    [q EXCEPT !.isProcessing = TRUE, !.error = NoneArg, !.inFlight[kind] = @ + 1]

\* the rest of them once the request has settled: the result is returned or
\* the error set, and finally setIsProcessing(false); the handler of the
\* component hands a result on to onResults
Settled(q, kind, ok) ==
    [q EXCEPT !.inFlight[kind] = @ - 1,
              !.error = IF ok THEN @ ELSE Some("An error occurred"),
              !.results = IF ok THEN Some(kind) ELSE @,
              !.isProcessing = FALSE]

\* the buttons 'Text Input' and 'PDF Upload'
setInputType(type) ==
    /\ useQuestions' = [useQuestions EXCEPT !.inputType = type]
    /\ UNCHANGED <<documentUpload, kbPreview, loginPage>>
    /\ ServiceAndOthersUnchanged

\* the textarea, disabled while isProcessing
setTextInput(text) ==
    /\ useQuestions.inputType = "text"
    /\ ~useQuestions.isProcessing
    /\ useQuestions' = [useQuestions EXCEPT !.textInput = text]
    /\ UNCHANGED <<documentUpload, kbPreview, loginPage>>
    /\ ServiceAndOthersUnchanged

\* QuestionInput.handleTextSubmit, by the button that is disabled while
\* isProcessing or the text is blank
handleTextSubmit ==
    /\ useQuestions.inputType = "text"
    /\ ~useQuestions.isProcessing
    /\ trim(useQuestions.textInput) # <<>>
    /\ Awaited(useQuestions) < MaxInFlight
    /\ useQuestions' = Process(useQuestions, "text")
    /\ UNCHANGED <<documentUpload, kbPreview, loginPage>>
    /\ ServiceAndOthersUnchanged

\* QuestionInput.handlePDFUpload
handlePDFUpload(q) == Process(q, "pdf")

\* PDFUploader.handleFileInput, by the file input that is disabled while
\* isProcessing
handleFileInput ==
    /\ useQuestions.inputType = "pdf"
    /\ ~useQuestions.isProcessing
    /\ Awaited(useQuestions) < MaxInFlight
    /\ useQuestions' = handlePDFUpload(useQuestions)
    /\ UNCHANGED <<documentUpload, kbPreview, loginPage>>
    /\ ServiceAndOthersUnchanged

\* PDFUploader.handleDrag
handleDrag(active) ==
    /\ useQuestions.inputType = "pdf"
    /\ useQuestions' = [useQuestions EXCEPT !.dragActive = active]
    /\ UNCHANGED <<documentUpload, kbPreview, loginPage>>
    /\ ServiceAndOthersUnchanged

\* PDFUploader.handleDrop of a file of the given type on the upload area
handleDrop(type) ==
    /\ useQuestions.inputType = "pdf"
    /\ Awaited(useQuestions) < MaxInFlight
    /\ \E q \in {[useQuestions EXCEPT !.dragActive = FALSE]} :
           useQuestions' = IF type = "application/pdf" THEN handlePDFUpload(q) ELSE q
    /\ UNCHANGED <<documentUpload, kbPreview, loginPage>>
    /\ ServiceAndOthersUnchanged

\* a request of the hook resolves or is rejected
RequestSettles ==
    /\ \E kind \in RequestKinds, ok \in BOOLEAN :
           /\ useQuestions.inFlight[kind] > 0
           /\ useQuestions' = Settled(useQuestions, kind, ok)
    /\ UNCHANGED <<documentUpload, kbPreview, loginPage>>
    /\ ServiceAndOthersUnchanged

SetInputType == \E type \in RequestKinds : setInputType(type)

SetTextInput == \E text \in TextInputs : setTextInput(text)

HandleDrag == \E active \in BOOLEAN : handleDrag(active)

HandleDrop == \E type \in FileTypes : handleDrop(type)

NextQuestions ==
    \/ SetInputType
    \/ SetTextInput
    \/ handleTextSubmit
    \/ handleFileInput
    \/ HandleDrag
    \/ HandleDrop
    \/ RequestSettles

SpecQuestions == Init /\ [][NextQuestions]_vars

\* ------------------------------------------------------------------------
\* DocumentUpload (components/DocumentUpload.tsx)
\* ------------------------------------------------------------------------

\* String.prototype.toLowerCase on one character
toLowerCase(c) ==
    CASE c = "A" -> "a"
      [] c = "P" -> "p"
      [] c = "D" -> "d"
      [] c = "F" -> "f"
      [] OTHER -> c

\* the names of the files a user drops or picks
FileNames ==
    {<<"a", ".", "p", "d", "f">>, <<"A", ".", "P", "D", "F">>, <<"a", ".", "x", "l", "s">>,
     <<"a", ".", "t", "x", "t">>, <<"x", "l", "s">>}

\* name.split('.').pop(): the characters after the last '.', the whole name
\* when it has none
RECURSIVE LastSegment(_)
LastSegment(name) ==
    IF \E i \in DOMAIN name : name[i] = "."
    THEN LastSegment(Tail(name))
    ELSE name

supportedFormats ==
    {<<"p", "d", "f">>, <<"d", "o", "c", "x">>, <<"d", "o", "c">>, <<"x", "l", "s", "x">>,
     <<"x", "l", "s">>}

\* DocumentUpload.validateFile, the setError apart
validateFile(name) ==
    LET fileExtension == LastSegment([i \in DOMAIN name |-> toLowerCase(name[i])])
    IN  fileExtension # <<>> /\ fileExtension \in supportedFormats

\* the FileLists of a drop or of the file input: a few files, or one file
\* MaxFiles times and once more
FileLists ==
    UNION {[1..n -> FileNames] : n \in 1..MaxChosen}
        \cup {[i \in 1..n |-> <<"a", ".", "p", "d", "f">>] : n \in {MaxFiles, MaxFiles + 1}}

UnsupportedMessage == "Unsupported file format"

\* the state after a selection that was turned down: the error is set and
\* nothing else
TurnedDown(d, files, message) ==
    [d EXCEPT !.error = Some(message), !.chosen = Some([files |-> files, accepted |-> FALSE])]

\* setError(null), setUploadResult(null), setMultiUploadResult(null)
Cleared(d, files) ==
    [d EXCEPT !.error = NoneArg, !.uploadResult = FALSE, !.multiUploadResult = FALSE,
              !.chosen = Some([files |-> files, accepted |-> TRUE])]

\* DocumentUpload.uploadFile and uploadMultipleFiles up to the await
Uploading(d) == [d EXCEPT !.isUploading = TRUE, !.error = NoneArg, !.inFlight = @ + 1]

\* DocumentUpload.handleFileSelect
handleFileSelect(d, file) ==
    IF ~validateFile(file) THEN TurnedDown(d, <<file>>, UnsupportedMessage)
    ELSE IF d.uploadMode = "single" THEN Uploading(Cleared(d, <<file>>))
    ELSE [Cleared(d, <<file>>) EXCEPT !.selectedFiles = <<file>>]

\* DocumentUpload.handleMultipleFileSelect
handleMultipleFileSelect(d, files) ==
    IF \E i \in DOMAIN files : ~validateFile(files[i])
    THEN TurnedDown(d, files, UnsupportedMessage)
    ELSE IF Len(files) > MaxFiles
    THEN TurnedDown(d, files, "Maximum 10 files allowed per upload")
    ELSE [Cleared(d, files) EXCEPT !.selectedFiles = files]

\* DocumentUpload.resetForm
resetForm(d) ==
    [d EXCEPT !.uploadResult = FALSE, !.multiUploadResult = FALSE, !.error = NoneArg,
              !.selectedFiles = <<>>]

OthersUnchanged == UNCHANGED <<useQuestions, kbPreview, loginPage>>

\* DocumentUpload.handleDrop and handleFileInputChange over a FileList
handleFiles(files) ==
    /\ documentUpload.inFlight < MaxInFlight
    /\ documentUpload' =
           IF documentUpload.uploadMode = "single"
           THEN handleFileSelect(documentUpload, files[1])
           ELSE handleMultipleFileSelect(documentUpload, files)
    /\ OthersUnchanged
    /\ ServiceAndOthersUnchanged

\* the buttons 'Single File' and 'Multiple Files'
setUploadMode(mode) ==
    /\ documentUpload' = resetForm([documentUpload EXCEPT !.uploadMode = mode])
    /\ OthersUnchanged
    /\ ServiceAndOthersUnchanged

\* the remove button of the file at index
removeFile(index) ==
    /\ documentUpload.uploadMode = "multiple"
    /\ index \in DOMAIN documentUpload.selectedFiles
    /\ documentUpload' =
           [documentUpload EXCEPT
               !.selectedFiles = SubSeq(@, 1, index - 1) \o SubSeq(@, index + 1, Len(@))]
    /\ OthersUnchanged
    /\ ServiceAndOthersUnchanged

\* the button 'Clear All', disabled while isUploading
clearAll ==
    /\ documentUpload.uploadMode = "multiple"
    /\ documentUpload.selectedFiles # <<>>
    /\ ~documentUpload.isUploading
    /\ documentUpload' = [documentUpload EXCEPT !.selectedFiles = <<>>]
    /\ OthersUnchanged
    /\ ServiceAndOthersUnchanged

\* DocumentUpload.uploadMultipleFiles, by the button that is disabled while
\* isUploading or no file is selected
uploadMultipleFiles ==
    /\ documentUpload.uploadMode = "multiple"
    /\ ~documentUpload.isUploading
    /\ documentUpload.selectedFiles # <<>>
    /\ documentUpload.inFlight < MaxInFlight
    /\ documentUpload' = Uploading(documentUpload)
    /\ OthersUnchanged
    /\ ServiceAndOthersUnchanged

\* an upload resolves or is rejected: the result or the error is set, and
\* finally setIsUploading(false)
UploadSettles ==
    /\ documentUpload.inFlight > 0
    /\ \E ok \in BOOLEAN :
           documentUpload' =
               [documentUpload EXCEPT
                   !.inFlight = @ - 1,
                   !.uploadResult = IF ok THEN TRUE ELSE @,
                   !.error = IF ok THEN @ ELSE Some("Upload failed. Please try again."),
                   !.isUploading = FALSE]
    /\ OthersUnchanged
    /\ ServiceAndOthersUnchanged

HandleFiles == \E files \in FileLists : handleFiles(files)

SetUploadMode == \E mode \in {"single", "multiple"} : setUploadMode(mode)

RemoveFile == \E index \in 1..MaxFiles : removeFile(index)

NextUpload ==
    \/ HandleFiles
    \/ SetUploadMode
    \/ RemoveFile
    \/ clearAll
    \/ uploadMultipleFiles
    \/ UploadSettles

SpecUpload == Init /\ [][NextUpload]_vars

\* ------------------------------------------------------------------------
\* KnowledgeBasePreview (components/KnowledgeBasePreview.tsx) and the
\* preview endpoint it loads from
\* ------------------------------------------------------------------------

\* the options of the page-size select that are chosen
PageSizes == {20, 50}

\* the options of the category select, '' being 'All Categories'
Categories == {"", "defi"}

\* what is typed into the search field
SearchTerms == {"", "tps"}

\* the number of entries of the knowledge base under a filter
total_entries(category, search) ==
    CASE category = "" /\ search = "" -> 49
      [] category = "" -> 25
      [] search = "" -> 12
      [] OTHER -> 5

\* the pages of total entries at page_size, the last one partly filled
total_pages(total, page_size) == (total + page_size - 1) \div page_size

\* the pagination object of the endpoint's answer to a request
Pagination(request) ==
    LET pages == total_pages(total_entries(request.category, request.search),
                             request.page_size)
    IN  [page |-> request.page, page_size |-> request.page_size, total_pages |-> pages,
         has_next |-> request.page < pages, has_prev |-> request.page > 1]

\* KnowledgeBasePreview.loadData up to the await, with the state of the
\* render it was created in
loadData(k) ==
    [k EXCEPT !.loading = TRUE, !.error = NoneArg,
              !.pending = @ \cup {PreviewRequest(k.currentPage, k.pageSize,
                                                 k.selectedCategory, k.searchTerm)}]

\* the effect on [currentPage, pageSize, selectedCategory, searchTerm]: the
\* render after a handler calls loadData when one of them has changed
Rendered(k, changed) ==
    IF <<changed.currentPage, changed.pageSize, changed.selectedCategory,
         changed.searchTerm>>
           = <<k.currentPage, k.pageSize, k.selectedCategory, k.searchTerm>>
    THEN changed
    ELSE loadData(changed)

\* the filters and the pagination are rendered
Controls(k) == k.data.some /\ ~k.error.some

PreviewStep(changed) ==
    /\ Cardinality(Rendered(kbPreview, changed).pending) <= MaxInFlight
    /\ kbPreview' = Rendered(kbPreview, changed)
    /\ UNCHANGED <<useQuestions, documentUpload, loginPage>>
    /\ ServiceAndOthersUnchanged

\* KnowledgeBasePreview.handlePageChange
handlePageChange(newPage) ==
    PreviewStep([kbPreview EXCEPT !.currentPage = newPage])

\* KnowledgeBasePreview.handleCategoryChange
handleCategoryChange(category) ==
    /\ Controls(kbPreview)
    /\ PreviewStep([kbPreview EXCEPT !.selectedCategory = category, !.currentPage = 1])

\* KnowledgeBasePreview.handleSearchChange
handleSearchChange(search) ==
    /\ Controls(kbPreview)
    /\ PreviewStep([kbPreview EXCEPT !.searchTerm = search, !.currentPage = 1])

\* KnowledgeBasePreview.clearFilters, by the button rendered while a filter
\* is set
clearFilters ==
    /\ Controls(kbPreview)
    /\ kbPreview.selectedCategory # "" \/ kbPreview.searchTerm # ""
    /\ PreviewStep([kbPreview EXCEPT !.selectedCategory = "", !.searchTerm = "",
                                     !.currentPage = 1])

\* the page-size select: setPageSize(Number(e.target.value))
setPageSize(page_size) ==
    /\ Controls(kbPreview)
    /\ PreviewStep([kbPreview EXCEPT !.pageSize = page_size])

\* the button 'Previous', disabled unless the data shown has_prev
Previous ==
    /\ Controls(kbPreview)
    /\ kbPreview.data.val.total_pages > 1
    /\ kbPreview.data.val.has_prev
    /\ kbPreview.currentPage > 0
    /\ handlePageChange(kbPreview.currentPage - 1)

\* the button 'Next', disabled unless the data shown has_next
NextPage ==
    /\ Controls(kbPreview)
    /\ kbPreview.data.val.total_pages > 1
    /\ kbPreview.data.val.has_next
    /\ kbPreview.currentPage < MaxPage
    /\ handlePageChange(kbPreview.currentPage + 1)

\* the buttons 'Refresh' and 'Retry': onClick={loadData}
Refresh ==
    /\ kbPreview.data.some \/ kbPreview.error.some
    /\ Cardinality(loadData(kbPreview).pending) <= MaxInFlight
    /\ kbPreview' = loadData(kbPreview)
    /\ UNCHANGED <<useQuestions, documentUpload, loginPage>>
    /\ ServiceAndOthersUnchanged

\* a loadData that is awaited gets its answer, or fails: setData(result) or
\* setError, and finally setLoading(false)
Loaded ==
    /\ \E request \in kbPreview.pending, ok \in BOOLEAN :
           kbPreview' =
               [kbPreview EXCEPT
                   !.pending = @ \ {request},
                   !.data = IF ok THEN Some(Pagination(request)) ELSE @,
                   !.error = IF ok THEN @ ELSE Some("Failed to load knowledge base"),
                   !.loading = FALSE]
    /\ UNCHANGED <<useQuestions, documentUpload, loginPage>>
    /\ ServiceAndOthersUnchanged

HandleCategoryChange == \E category \in Categories : handleCategoryChange(category)

HandleSearchChange == \E search \in SearchTerms : handleSearchChange(search)

SetPageSize == \E page_size \in PageSizes : setPageSize(page_size)

NextPreview ==
    \/ Previous
    \/ NextPage
    \/ HandleCategoryChange
    \/ HandleSearchChange
    \/ clearFilters
    \/ SetPageSize
    \/ Refresh
    \/ Loaded

SpecPreview == Init /\ [][NextPreview]_vars

\* ------------------------------------------------------------------------
\* LoginPage (pages/TestAdminPage.tsx): the effect that initialises
\* Google sign-in
\* ------------------------------------------------------------------------

ClientIdPlaceholder == "your-google-client-id.apps.googleusercontent.com"

\* process.env.REACT_APP_GOOGLE_CLIENT_ID of the build: unset, the
\* placeholder of the template, or a client id
ClientIds == {"", ClientIdPlaceholder, "1234.apps.googleusercontent.com"}

ClientIdMessage == "Google Client ID not configured"

ScriptMessage == "Google Sign-in script not loaded"

\* one run of the effect as it starts: let retryCount = 0, nothing
\* scheduled, nothing done
EffectRun == [retryCount |-> 0, scheduled |-> FALSE, initialized |-> FALSE, error |-> NoneArg]

\* retryCount is below maxRetries and the wait may be repeated
MayRetryAtLimit(retryCount) == retryCount <= MaxRetries

\* retryCount < maxRetries
MayRetry(retryCount) == retryCount < MaxRetries

\* initializeGoogleSignIn of the i-th run of the effect
initializeGoogleSignIn(page, i) ==
    LET run == page.runs[i]
    IN  IF page.google
        THEN IF page.clientId = "" \/ page.clientId = ClientIdPlaceholder
             THEN [page EXCEPT !.error = Some(ClientIdMessage),
                               !.runs[i].scheduled = FALSE,
                               !.runs[i].error = Some(ClientIdMessage)]
             ELSE [page EXCEPT !.button = TRUE,
                               !.runs[i].scheduled = FALSE,
                               !.runs[i].initialized = TRUE]
        ELSE IF MayRetry(run.retryCount)
             THEN [page EXCEPT !.runs[i].retryCount = @ + 1,
                               !.runs[i].scheduled = TRUE]
             ELSE [page EXCEPT !.error = Some(ScriptMessage),
                               !.runs[i].scheduled = FALSE,
                               !.runs[i].error = Some(ScriptMessage)]

LoginOthersUnchanged ==
    /\ UNCHANGED <<useQuestions, documentUpload, kbPreview>>
    /\ ServiceAndOthersUnchanged

\* LoginPage renders first and its effect runs; the script of Google may
\* have loaded by then
MountLogin ==
    /\ loginPage = NoneArg
    /\ \E clientId \in ClientIds, google \in BOOLEAN :
           loginPage' = initializeGoogleSignIn(
                            [clientId |-> clientId, google |-> google, error |-> NoneArg,
                             button |-> FALSE, runs |-> <<EffectRun>>], 1)
    /\ LoginOthersUnchanged

\* the script of accounts.google.com has loaded: window.google.accounts.id
ScriptLoads ==
    /\ loginPage # NoneArg
    /\ ~loginPage.google
    /\ loginPage' = [loginPage EXCEPT !.google = TRUE]
    /\ LoginOthersUnchanged

\* setTimeout(initializeGoogleSignIn, 100) of the i-th run fires
Timeout(i) ==
    /\ loginPage # NoneArg
    /\ i \in DOMAIN loginPage.runs
    /\ loginPage.runs[i].scheduled
    /\ loginPage' = initializeGoogleSignIn(loginPage, i)
    /\ LoginOthersUnchanged

\* AuthProvider renders again: loginWithGoogle, and with it
\* handleGoogleResponse, is a new function and the effect runs again; the
\* effect returns no cleanup, so the timeouts of the earlier runs stay
EffectAgain ==
    /\ loginPage # NoneArg
    /\ Len(loginPage.runs) < MaxEffectRuns
    /\ loginPage' = initializeGoogleSignIn(
                        [loginPage EXCEPT !.runs = Append(@, EffectRun)],
                        Len(loginPage.runs) + 1)
    /\ LoginOthersUnchanged

TimeoutFires == \E i \in 1..MaxEffectRuns : Timeout(i)

NextLogin ==
    \/ MountLogin
    \/ ScriptLoads
    \/ TimeoutFires
    \/ EffectAgain

SpecLogin == Init /\ [][NextLogin]_vars

\* the event loop runs every timeout that is due
SpecLoginFair ==
    SpecLogin /\ \A i \in 1..MaxEffectRuns : WF_vars(Timeout(i))

\* ------------------------------------------------------------------------
\* Properties
\* ------------------------------------------------------------------------

Mutations == {"add", "update", "delete"}

\* every confidence a caller may ask for, the certain match included
AnyConfidence == Thresholds \cup {1000}

\* no rebuild has left the vectorizer unfitted
Fitted == IF vectorizer.set THEN vectorizer.fitted ELSE TRUE

\* C1: for every active entry E, get_best_answer over E's question as it is
\* stored finds E with confidence 1.0, whatever min_confidence is passed;
\* stated for the states in which no rebuild has failed and the entries
\* whose question does not normalize to the empty text
ExactMatchPriority ==
    Fitted =>
        \A id \in ActiveIds(db), mc \in AnyConfidence :
            normalize_text(db[id].question) # <<>> =>
                LET best == get_best_answer(db[id].question, mc)
                IN  /\ best.error = "none"
                    /\ best.found
                    /\ best.match.id = id
                    /\ best.match.confidence = 1000

\* the documents the index holds: one per entry it was built over
Indexed(idx) == IF idx.corpus.set THEN idx.corpus.docs ELSE <<>>

IndexedRows(idx) == IF idx.X.set THEN idx.X.rows ELSE <<>>

\* C2: once a mutation has completed, the entry list, the corpus and the
\* term matrix hold exactly the active rows of the table with their
\* current text
IndexEqualsStore ==
    (last.op \in Mutations /\ last.changed /\ ~last.rebuildRaised) =>
        LET items == get_all_active_entries(db)
            docs == CorpusOf(db, items)
        IN  /\ kb_items = items
            /\ Indexed(Index) = docs
            /\ Len(IndexedRows(Index)) = Len(docs)
            /\ (items # <<>> =>
                    vectorizer = Fit(docs) /\ X = Matrix(vectorizer, docs))

\* C3: an add whose question normalizes to the text of an active entry's
\* question is rejected, the error carries the id of that entry, and nothing
\* changes; stated for the adds whose duplicate check ran to its end
DuplicateQuestionRejected ==
    (last.op = "add" /\ last.sameQuestion # {}
                    /\ last.outcome.kind \in {"ok", "ValueError"}) =>
        /\ ~last.changed
        /\ last.outcome.kind # "ok"
        /\ "id" \in DOMAIN last.outcome
        /\ last.outcome.id \in last.sameQuestion

FailedRebuildKeepsIndex ==
    (last.op \in Mutations /\ last.rebuildRaised) => Index = last.before

\* the exact tier: the active entries whose normalized question is the
\* normalized query, each a match of confidence 1.0
ExactTier(question) ==
    {<<Match(db, id, 1000)>> : id \in SameQuestion(db, question)}

\* the lexical tier: the tf-idf index over the active entries, filtered by
\* min_confidence and ordered by confidence
LexicalTier(question, min_confidence) ==
    LET built == _rebuild_index(db, [kb_items |-> <<>>, vectorizer |-> IsNone,
                                     X |-> IsNone, corpus |-> IsNone])
    IN  IF built.kb_items = <<>> \/ built.raised THEN <<>>
        ELSE SearchOver(built.kb_items, built.vectorizer, built.vectorizer, built.X,
                        built.kb_items, db, question, min_confidence).matches

\* the first limit elements
Truncate(matches, limit) ==
    SubSeq(matches, 1, IF Len(matches) < limit THEN Len(matches) ELSE limit)

\* the results the exact and lexical tiers alone allow for a search: nothing
\* for an empty query, the exact match if there is one (either entry, when
\* two collide), the lexical candidates otherwise
ExactAndLexical(question, min_confidence, limit) ==
    IF normalize_text(question) = <<>> THEN {<<>>}
    ELSE IF ExactTier(question) # {} THEN ExactTier(question)
    ELSE {Truncate(LexicalTier(question, min_confidence), limit)}

\* C6: with no embedding of the query, search raises nothing and returns
\* what the exact and lexical tiers alone give; stated for the states in
\* which no rebuild has failed
FallbackIsExactAndLexical ==
    Fitted =>
        \A q \in QueryPool, mc \in Thresholds, n \in Limits :
            LET res == search_answers(q, mc)
            IN  /\ res.error = "none"
                /\ res.matches \in ExactAndLexical(q, mc, n)

\* the matches of a result, as a set
MatchSet(res) == {res.matches[k] : k \in DOMAIN res.matches}

\* C7: every candidate a search returns at a threshold is returned at every
\* lower threshold too
ThresholdMonotone ==
    \A q \in QueryPool, t1 \in Thresholds, t2 \in Thresholds :
        t1 < t2 => MatchSet(search_answers(q, t2)) \subseteq MatchSet(search_answers(q, t1))

\* a search at the duplicate guard's threshold returned some but not all of
\* the entries threshold 0 returns
ThresholdBites ==
    /\ last.op = "search"
    /\ last.min_confidence = DuplicateThreshold
    /\ last.result.matches # <<>>
    /\ Len(search_answers(last.question, 0).matches) > Len(last.result.matches)

\* C8: a query that normalizes to the empty text finds nothing, at any
\* min_confidence; stated for the states in which no rebuild has failed
EmptyQueryFindsNothing ==
    Fitted =>
        \A q \in QueryPool, mc \in Thresholds :
            normalize_text(q) = <<>> =>
                /\ search_answers(q, mc) = Returned(<<>>)
                /\ get_best_answer(q, mc) = NoAnswer

\* C9: while the table has no active row, every search returns [] and
\* every get_best_answer None, and none raises
NoActiveEntryFindsNothing ==
    ActiveIds(db) = {} =>
        \A q \in QueryPool, mc \in Thresholds :
            /\ search_answers(q, mc) = Returned(<<>>)
            /\ get_best_answer(q, mc) = NoAnswer

\* a search answered [] after the last active entry of a built index was
\* deleted
SearchedAfterLastDelete ==
    /\ ActiveIds(db) = {}
    /\ vectorizer.set
    /\ X.set
    /\ last.op = "search"
    /\ last.min_confidence = 0
    /\ last.question = T_sol_tps
    /\ last.result = Returned(<<>>)

\* C10: every match the search endpoint returns has a confidence of at
\* least min_confidence, and there are no more matches than limit
ResultsWithinConfidenceAndLimit ==
    (last.op = "search" /\ last.result.error = "none") =>
        /\ \A k \in DOMAIN last.result.matches :
               last.result.matches[k].confidence >= last.min_confidence
        /\ Len(last.result.matches) <= last.limit

\* the first match of a list, as the list search cut to limit 1 returns
FirstOnly(matches) == IF matches = <<>> THEN <<>> ELSE <<matches[1]>>

\* C11: get_best_answer returns None exactly when the search at the same
\* min_confidence, cut to one result, is empty; otherwise it returns that one
\* result, and no match of the search has a higher confidence; it raises
\* exactly what the search raises
BestIsFirstOfSearch ==
    \A q \in QueryPool, mc \in Thresholds :
        LET res == search_answers(q, mc)
            best == get_best_answer(q, mc)
        IN  /\ best.error = res.error
            /\ best.found <=> FirstOnly(res.matches) # <<>>
            /\ best.found =>
                   /\ <<best.match>> = FirstOnly(res.matches)
                   /\ \A k \in DOMAIN res.matches :
                          best.match.confidence >= res.matches[k].confidence

\* get_best_answer answered the entry of the second row of the index, which
\* the search ranks above the entry of the first row
BestOfTwoRanked ==
    /\ last.op = "best"
    /\ last.result.error = "none"
    /\ last.result.found
    /\ Len(kb_items) = 2
    /\ last.result.match.id = kb_items[2]
    /\ LET res == search_answers(last.question, last.min_confidence)
       IN  /\ Len(res.matches) = 2
           /\ res.matches[1].confidence > res.matches[2].confidence

\* the ids of the entries a result names
ResultIds(res) == {res.matches[k].id : k \in DOMAIN res.matches}

\* C12: no match of a search, a best answer or the duplicate check of add
\* names a row that is not active, and an active entry taken out of the
\* lookups by delete_entry is still a row of the table, no longer active
InactiveExcludedAndRetained ==
    /\ \A q \in QueryPool, mc \in Thresholds :
           ResultIds(search_answers(q, mc)) \subseteq ActiveIds(db)
    /\ \A q \in QueryPool, mc \in Thresholds :
           LET best == get_best_answer(q, mc)
           IN  best.found => best.match.id \in ActiveIds(db)
    /\ (last.op = "delete" /\ last.changed /\ last.wasActive) =>
           /\ last.entry_id \in DOMAIN db
           /\ ~db[last.entry_id].is_active

\* min_confidence values below the operating points the documents recommend
\* (0.7 for the embedding tier, 0.2 and 0.1 for the lexical tier)
BelowRecommended == {0, 50, 150, 650}

\* the candidates of a query: one per row of the index, the entry of the row
\* with the cosine of the query and the row; an index that cannot score has
\* none
Candidates(question) ==
    IF kb_items = <<>> \/ ~vectorizer.set \/ ~Fitted \/ ~X.set THEN {}
    ELSE LET qv == Transform(vectorizer, normalize_text(question))
         IN  {Match(db, kb_items[i], Similarity(qv, X.rows[i])) :
                 i \in DOMAIN X.rows \cap DOMAIN kb_items}

ConfidenceWithinUnit ==
    \A q \in QueryPool, mc \in Thresholds :
        LET res == search_answers(q, mc)
        IN  \A k \in DOMAIN res.matches :
                /\ res.matches[k].confidence \in 0..1000
                /\ (normalize_text(q) # <<>> /\ res.matches[k].id \in SameQuestion(db, q)) =>
                       res.matches[k].confidence = 1000

\* what the call of thread t returns when it is the only one running, over
\* the table and the index as they are
Alone(t) ==
    IF searches[t].caller = "get_best_answer"
    THEN get_best_answer(searches[t].question, searches[t].min_confidence)
    ELSE search_answers(searches[t].question, searches[t].min_confidence)

\* C15: no statement of a search_answers or get_best_answer call changes the
\* table or an attribute of the index, and each of the calls that run beside
\* each other returns what it returns when it runs alone
QueriesReadOnly ==
    /\ [][searches' # searches =>
             UNCHANGED <<db, nextId, kb_items, vectorizer, X, corpus>>]_vars
    /\ [](\A t \in Threads :
             searches[t].pc = "return" => searches[t].result = Alone(t))

\* a search has its two matches while the call of the other thread, which
\* began before it ended, is between its statements
SearchesOverlap ==
    /\ searches[1].pc = "return"
    /\ searches[1].caller = "search_knowledge_base"
    /\ searches[1].result.error = "none"
    /\ Len(searches[1].result.matches) = 2
    /\ searches[2].pc \in {"217", "220", "226"}
    /\ searches[2].caller = "get_best_answer"

\* C16: every active row of the table has a question and an answer that are
\* not the empty text
ActiveEntriesNonEmpty ==
    \A id \in ActiveIds(db) : db[id].question # <<>> /\ db[id].answer # <<>>

\* the questions of a batch for which get_best_answer returns a match
Answered(questions) ==
    {i \in DOMAIN questions :
        get_best_answer(questions[i], DefaultMinConfidence).found}

OnlyAllowedAuthenticated ==
    isAuthenticated => Allowed(auth.user.val.email)

\* search_answers over the attributes of index value idx
SearchIn(idx, question, min_confidence) ==
    SearchOver(idx.kb_items, idx.vectorizer, idx.vectorizer, idx.X, idx.kb_items, db,
               question, min_confidence)

\* C19: over an unchanged table, a rebuild followed by another rebuild leaves
\* an index that answers every search as the index the one rebuild leaves,
\* with the same entries, confidences and order; and the index as the last
\* rebuild left it answers as it does after one more rebuild
RebuildIdempotent ==
    LET once == Post(db, Index)
        twice == Post(db, once)
    IN  \A q \in QueryPool, mc \in Thresholds :
            /\ SearchIn(twice, q, mc) = SearchIn(once, q, mc)
            /\ SearchIn(once, q, mc) = search_answers(q, mc)

\* an update that changed no field has committed and rebuilt the index of
\* two entries a second time, and a search over it finds both
RebuiltOverUnchanged ==
    /\ last.op = "update"
    /\ last.changed
    /\ last.unchanged
    /\ ~last.rebuildRaised
    /\ Len(kb_items) = 2
    /\ Len(search_answers(T_sol_tps, 0).matches) = 2

\* the call of thread t looks for the question of an active entry
ExactHit(t) ==
    /\ searches[t].pc # "idle"
    /\ normalize_text(searches[t].question) # <<>>
    /\ SameQuestion(db, searches[t].question) # {}

\* C20: a search for the question of an active entry (an exact hit) does not
\* go on to query the term matrix, and returns exactly that one entry, with
\* confidence 1.0
ExactHitShortCircuits ==
    \A t \in Threads :
        ExactHit(t) =>
            /\ searches[t].pc \notin {"220", "226"}
            /\ \A k \in DOMAIN searches[t].reads : searches[t].reads[k].attr # "X"
            /\ (searches[t].pc = "return" /\ searches[t].caller = "search_knowledge_base") =>
                   /\ searches[t].result.error = "none"
                   /\ Len(searches[t].result.matches) = 1
                   /\ searches[t].result.matches[1].id
                          \in SameQuestion(db, searches[t].question)
                   /\ searches[t].result.matches[1].confidence = 1000

Colliding(id) == SameQuestion(db, db[id].question) \ {id}

\* C23: once an add or an update has left its entry sharing its normalized
\* question with another active entry, the rebuild has not raised and a
\* lookup of that question answers the entry just written, the one updated
\* last
CollisionLatestWins ==
    (/\ last.op \in {"add", "update"}
     /\ last.changed
     /\ IF last.op = "update" THEN ~last.unchanged ELSE TRUE) =>
        \A id \in {last.entry_id} \cap ActiveIds(db) :
            (normalize_text(db[id].question) # <<>> /\ Colliding(id) # {}) =>
                /\ ~last.rebuildRaised
                /\ LET best == get_best_answer(db[id].question, DefaultMinConfidence)
                   IN  /\ best.error = "none"
                       /\ best.found
                       /\ best.match.id = id

\* C24: no two active entries have questions that normalize to the same
\* text; stated for the questions that do not normalize to the empty text
NoDuplicateQuestions ==
    \A i, j \in ActiveIds(db) :
        (/\ normalize_text(db[i].question) # <<>>
         /\ normalize_text(db[i].question) = normalize_text(db[j].question)) => i = j

\* C25: a construction builds nothing, it leaves the attributes as it first
\* assigned them, and a query on the service just constructed returns what it
\* returns on the index built over the table
BuiltLazily ==
    (last.op = "init" /\ ~last.raised) =>
        /\ Index = Constructed
        /\ \A q \in QueryPool, mc \in Thresholds :
               search_answers(q, mc) = SearchIn(Post(db, Constructed), q, mc)

\* C26: the embedding an active entry holds is one generated from the
\* question and answer the entry has now
EmbeddingOfCurrentText ==
    \A id \in ActiveIds(db) :
        db[id].embedding.some =>
            db[id].embedding.val = Embedded(db[id].question, db[id].answer)

\* C27: isProcessing is true in every state in which a processTextQuestions
\* or processPDFQuestions request is awaited
ProcessingWhileAwaited ==
    Awaited(useQuestions) > 0 => useQuestions.isProcessing

\* the extension of a file name: the characters after its last '.', none
\* for a name without a '.'
Extension(name) ==
    IF \E i \in DOMAIN name : name[i] = "."
    THEN Some(LastSegment([i \in DOMAIN name |-> toLowerCase(name[i])]))
    ELSE NoneArg

\* C28: selectedFiles holds at most 10 files, each with the extension pdf,
\* docx, doc, xlsx or xls
SelectedFilesValid ==
    /\ Len(documentUpload.selectedFiles) <= MaxFiles
    /\ \A i \in DOMAIN documentUpload.selectedFiles :
           /\ Extension(documentUpload.selectedFiles[i]).some
           /\ Extension(documentUpload.selectedFiles[i]).val \in supportedFormats

\* C29: the page of every request sent to the preview endpoint lies between
\* 1 and the total_pages of the entries under the request's filters at its
\* page size
RequestedPageExists ==
    \A request \in kbPreview.pending :
        /\ request.page >= 1
        /\ request.page <= Pagination(request).total_pages

\* the runs of the effect of LoginPage so far
EffectRuns == IF loginPage = NoneArg THEN <<>> ELSE loginPage.runs

\* how many of the three outcomes a run has: the button initialised, the
\* error of the client id, the error of the script
Outcomes(run) ==
    Cardinality({o \in {"button", "client", "script"} :
                    \/ o = "button" /\ run.initialized
                    \/ o = "client" /\ run.error = Some(ClientIdMessage)
                    \/ o = "script" /\ run.error = Some(ScriptMessage)})

\* C30: every run of the effect that initialises Google sign-in waits for
\* the script at most MaxRetries times, has none of the three outcomes
\* while it waits and exactly one once it has ended, and every run that
\* has started ends
GoogleInitTerminates ==
    /\ [](\A i \in DOMAIN EffectRuns :
             /\ EffectRuns[i].retryCount <= MaxRetries
             /\ Outcomes(EffectRuns[i]) = IF EffectRuns[i].scheduled THEN 0 ELSE 1)
    /\ \A i \in 1..MaxEffectRuns :
           (i \in DOMAIN EffectRuns)
               ~> (i \in DOMAIN EffectRuns /\ ~EffectRuns[i].scheduled)

\* a run has waited MaxRetries times and ended with the error of the
\* script, and the page shows it
GaveUpAfterMaxRetries ==
    \E i \in DOMAIN EffectRuns :
        /\ EffectRuns[i].retryCount = MaxRetries
        /\ ~EffectRuns[i].scheduled
        /\ EffectRuns[i].error = Some(ScriptMessage)
        /\ loginPage.error = Some(ScriptMessage)

====
